---------------------------- MODULE Spec2Model ----------------------------
(***************************************************************************)
(* The REPE TCP server of src/cpp_server/repe_server.cpp: one worker       *)
(* thread per accepted connection runs handle_client, which reads a frame  *)
(* (header, query, body), dispatches it with process_request and writes    *)
(* the response with send_response.                                        *)
(*                                                                         *)
(* Representation.                                                         *)
(*  - A std::string holding text is a TLA+ string (Len, \o, SubSeq, Tail). *)
(*  - A body is a record [enc, val]: the codec its bytes are written in    *)
(*    and the value they carry.  glz::read_json / glz::read_beve are       *)
(*    library calls; they are modelled by their contract: they succeed     *)
(*    only on bytes of their own codec that carry a value of the           *)
(*    requested type.  BodySize gives the byte count of a body.            *)
(*  - A header is a record of the fields of glz::repe::header that the     *)
(*    program reads or writes.                                             *)
(*  - A double is a natural number; the inputs keep divisions exact.       *)
(***************************************************************************)
EXTENDS Integers, Sequences, FiniteSets, TLC

VARIABLES
  running,     \* repe_tcp_server::running
  alive,       \* the server process has not been terminated
  pc,          \* pc[c]: where worker c stands in handle_client
  request,     \* request[c]: the local glz::repe::message request
  response,    \* response[c]: the local glz::repe::message response
  bytes_read,  \* bytes_read[c]: the local ssize_t bytes_read
  wire,        \* wire[c]: the frames send() has written in this iteration
  invoked,     \* invoked[c]: the service method called in this iteration
  nreq,        \* nreq[c]: complete headers received so far
  nsent,       \* nsent[c]: frames written so far
  nnonnotify,  \* nnonnotify[c]: complete requests received with notify clear
  nerrors,     \* nerrors[c]: requests process_request answered with an error
  closes       \* closes[c]: calls of close_socket(client_fd)

vars == <<running, alive, pc, request, response, bytes_read, wire, invoked,
          nreq, nsent, nnonnotify, nerrors, closes>>

(***************************************************************************)
(* Bounds of the model.                                                    *)
(***************************************************************************)
MaxRequests == 2
MaxConns == 2

Fds == 1..MaxConns

(***************************************************************************)
(* Program constants.                                                      *)
(***************************************************************************)
\* sizeof(glz::repe::header)
header_size == 48
\* 0x1507
REPE_SPEC == 5383
\* Stands for max_size() of std::vector<uint8_t> and std::string (about
\* 2^63), scaled into TLC's integers: a length above it cannot be
\* allocated and the constructor or resize throws std::length_error.
max_size == 1000

TooBig == max_size + 1

(***************************************************************************)
(* Bodies.                                                                 *)
(***************************************************************************)
Dbl(n) == [t |-> "num", n |-> n, s |-> ""]      \* a double
IntVal(n) == [t |-> "int", n |-> n, s |-> ""]   \* an int
StrVal(s) == [t |-> "str", n |-> 0, s |-> s]    \* a std::string

EmptyMap == [k \in {} |-> Dbl(0)]

EmptyBody == [enc |-> "empty", val |-> EmptyMap]
\* The bytes of a text, as response.body = "..." stores them.
Text(s) == [enc |-> "utf8", val |-> ("text" :> StrVal(s))]
\* glz::write_json(data, body) and glz::write_beve(data, body)
Json(m) == [enc |-> "json", val |-> m]
Beve(m) == [enc |-> "beve", val |-> m]
\* n bytes that are neither JSON nor BEVE.
Garbage(n) == [enc |-> "garbage", val |-> ("size" :> IntVal(n))]
\* The n-byte buffer left by a recv() that returned fewer bytes than n.
Partial(n) == [enc |-> "partial", val |-> ("size" :> IntVal(n))]

Digits(n) == IF n < 10 THEN 1 ELSE IF n < 100 THEN 2 ELSE 3

\* Bytes of one value in JSON text and in BEVE (header byte, then the
\* payload: 8 bytes of a double, 4 of an int, a length byte and the
\* characters of a string).
JsonValSize(v) == IF v.t = "str" THEN Len(v.s) + 2 ELSE Digits(v.n)
BeveValSize(v) ==
  IF v.t = "str" THEN 2 + Len(v.s) ELSE IF v.t = "int" THEN 5 ELSE 9

RECURSIVE JsonMembers(_, _)
JsonMembers(m, keys) ==
  IF keys = {} THEN 0
  ELSE LET k == CHOOSE x \in keys : TRUE
       IN Len(k) + 3 + JsonValSize(m[k]) + JsonMembers(m, keys \ {k})

RECURSIVE BeveMembers(_, _)
BeveMembers(m, keys) ==
  IF keys = {} THEN 0
  ELSE LET k == CHOOSE x \in keys : TRUE
       IN 1 + Len(k) + BeveValSize(m[k]) + BeveMembers(m, keys \ {k})

\* std::string::size() of a body.
BodySize(b) ==
  CASE b.enc = "empty" -> 0
    [] b.enc = "utf8" -> Len(b.val["text"].s)
    [] b.enc = "json" ->
         LET n == Cardinality(DOMAIN b.val)
         IN 2 + JsonMembers(b.val, DOMAIN b.val) + (IF n > 0 THEN n - 1 ELSE 0)
    [] b.enc = "beve" -> 2 + BeveMembers(b.val, DOMAIN b.val)
    [] b.enc \in {"garbage", "partial"} -> b.val["size"].n

(***************************************************************************)
(* Messages.                                                               *)
(***************************************************************************)
\* glz::repe::header{}: the default member initialisers.
EmptyHeader ==
  [length |-> 0, spec |-> REPE_SPEC, version |-> 1, notify |-> 0, id |-> 0,
   query_length |-> 0, body_length |-> 0, body_format |-> 0, ec |-> "none"]

\* glz::repe::message{}
EmptyMessage == [header |-> EmptyHeader, query |-> "", body |-> EmptyBody]

(***************************************************************************)
(* math_service                                                            *)
(***************************************************************************)
add(a, b) == a + b

multiply(x, y) == x * y

\* divide without the test of the denominator.
divide_Unchecked(numerator, denominator) ==
  [thrown |-> FALSE,
   result |-> IF denominator = 0 THEN 0 ELSE numerator \div denominator,
   what |-> ""]

\* Returns the quotient, or the std::invalid_argument it throws.
divide(numerator, denominator) ==
  IF denominator = 0
    THEN [thrown |-> TRUE, result |-> 0, what |-> "Division by zero"]
    ELSE [thrown |-> FALSE, result |-> numerator \div denominator, what |-> ""]

echo(message) == "Echo: " \o message

status ==
  ("status" :> StrVal("online")) @@ ("version" :> StrVal("1.0.0")) @@
  ("uptime" :> Dbl(100)) @@ ("connections" :> IntVal(1))

(***************************************************************************)
(* decode_params and encode_response                                       *)
(***************************************************************************)
\* Whether the value m can be read as std::map<std::string, T>.
Conforms(T, m) ==
  \A k \in DOMAIN m : m[k].t = (IF T = "double" THEN "num" ELSE "str")

\* glz::read_beve<T>(body) and glz::read_json<T>(body)
read_beve(T, body) ==
  IF body.enc = "beve" /\ Conforms(T, body.val)
    THEN [ok |-> TRUE, val |-> body.val]
    ELSE [ok |-> FALSE, val |-> EmptyMap]

read_json(T, body) ==
  IF body.enc = "json" /\ Conforms(T, body.val)
    THEN [ok |-> TRUE, val |-> body.val]
    ELSE [ok |-> FALSE, val |-> EmptyMap]

\* decode_params without the test of body_format: either codec is tried.
decode_params_AnyFormat(T, req) ==
  IF read_beve(T, req.body).ok THEN read_beve(T, req.body)
  ELSE read_json(T, req.body)

\* The std::optional<T> decode_params<T> returns (ok: it holds a value).
decode_params(T, req) ==
  IF req.header.body_format = 1 THEN read_beve(T, req.body)
  ELSE IF req.header.body_format = 2 THEN read_json(T, req.body)
  ELSE [ok |-> FALSE, val |-> EmptyMap]

\* encode_response without its BEVE branch.
encode_response_AlwaysJson(data, resp, format) ==
  [resp EXCEPT !.body = Json(data), !.header.body_format = 2]

encode_response(data, resp, format) ==
  IF format = 1
    THEN [resp EXCEPT !.body = Beve(data), !.header.body_format = 1]
    ELSE [resp EXCEPT !.body = Json(data), !.header.body_format = 2]

\* AtDouble that makes up 1.0 for a key that is absent.
AtDouble_MissingIsOne(m, key) == IF key \in DOMAIN m THEN m[key].n ELSE 1

\* params.value()[key] of a std::map<std::string, double>: a key that is
\* absent is inserted with the value 0.0.
AtDouble(m, key) == IF key \in DOMAIN m THEN m[key].n ELSE 0

\* params.value()[key] of a std::map<std::string, std::string>
AtString(m, key) == IF key \in DOMAIN m THEN m[key].s ELSE ""

(***************************************************************************)
(* process_request                                                         *)
(***************************************************************************)
\* CopyIdAndQuery without the copy of the query.
CopyIdAndQuery_NoQuery(req, resp) ==
  [resp EXCEPT !.header.id = req.header.id,
               !.header.spec = REPE_SPEC,
               !.header.version = 1]

\* "Copy request ID and query"
CopyIdAndQuery(req, resp) ==
  [resp EXCEPT !.header.id = req.header.id,
               !.query = req.query,
               !.header.spec = REPE_SPEC,
               !.header.version = 1]

\* MethodName removing every leading slash.
RECURSIVE MethodName_StripsAll(_)
MethodName_StripsAll(query) ==
  IF query # "" /\ SubSeq(query, 1, 1) = "/"
    THEN MethodName_StripsAll(Tail(query))
    ELSE query

\* "Parse method from query (remove leading slash if present)"
MethodName(query) ==
  IF query # "" /\ SubSeq(query, 1, 1) = "/" THEN Tail(query) ELSE query

\* The error branches: ec, a text body, body_format = 3.
ErrorResponse(resp, ec, text) ==
  [resp EXCEPT !.header.ec = ec, !.body = Text(text), !.header.body_format = 3]

\* "Update header lengths"
UpdateLengths(resp) ==
  LET ql == Len(resp.query)
      bl == BodySize(resp.body)
  IN [resp EXCEPT !.header.query_length = ql,
                  !.header.body_length = bl,
                  !.header.length = header_size + ql + bl]

Result(r) == ("result" :> r)

\* The branch of process_request taken for the method: the response before
\* its lengths are updated, and the service method that was called.
Branch(method, req, resp) ==
  LET response_format == req.header.body_format
      nums == decode_params("double", req)
      strs == decode_params("string", req)
  IN CASE method = "add" ->
            IF nums.ok
              THEN [response |-> encode_response(
                       Result(Dbl(add(AtDouble(nums.val, "a"),
                                      AtDouble(nums.val, "b")))),
                       resp, response_format),
                    invoked |-> "add"]
              ELSE [response |-> ErrorResponse(resp, "parse_error",
                                   "Invalid parameters for add"),
                    invoked |-> "none"]
       [] method = "multiply" ->
            IF nums.ok
              THEN [response |-> encode_response(
                       Result(Dbl(multiply(AtDouble(nums.val, "x"),
                                           AtDouble(nums.val, "y")))),
                       resp, response_format),
                    invoked |-> "multiply"]
              ELSE [response |-> ErrorResponse(resp, "parse_error",
                                   "Invalid parameters for multiply"),
                    invoked |-> "none"]
       [] method = "divide" ->
            IF nums.ok
              THEN LET d == divide(AtDouble(nums.val, "numerator"),
                                   AtDouble(nums.val, "denominator"))
                   IN IF d.thrown
                        THEN [response |-> ErrorResponse(resp, "invalid_body",
                                             d.what),
                              invoked |-> "divide"]
                        ELSE [response |-> encode_response(
                                 Result(Dbl(d.result)), resp, response_format),
                              invoked |-> "divide"]
              ELSE [response |-> ErrorResponse(resp, "parse_error",
                                   "Invalid parameters for divide"),
                    invoked |-> "none"]
       [] method = "echo" ->
            IF strs.ok
              THEN [response |-> encode_response(
                       Result(StrVal(echo(AtString(strs.val, "message")))),
                       resp, response_format),
                    invoked |-> "echo"]
              ELSE [response |-> ErrorResponse(resp, "parse_error",
                                   "Invalid parameters for echo"),
                    invoked |-> "none"]
       [] method = "status" ->
            [response |-> encode_response(status, resp, response_format),
             invoked |-> "status"]
       [] OTHER ->
            [response |-> ErrorResponse(resp, "method_not_found",
                             "Method not found: " \o method),
             invoked |-> "none"]

process_request(req, resp) ==
  LET b == Branch(MethodName(req.query), req, CopyIdAndQuery(req, resp))
  IN [response |-> UpdateLengths(b.response), invoked |-> b.invoked]

(***************************************************************************)
(* send_response                                                           *)
(***************************************************************************)
\* The buffer handed to send(): buffer.size() bytes, into which the
\* header, the query and the body were copied one after the other.
Frame(resp) ==
  [header |-> resp.header, query |-> resp.query, body |-> resp.body,
   size |-> resp.header.length]

\* The bytes send_response copies: header, query, body.
Copied(resp) == header_size + Len(resp.query) + BodySize(resp.body)

\* What a call of send_response can do.  A length above max_size makes the
\* std::vector constructor throw std::length_error, which nothing catches:
\* the process terminates.  A length below the bytes copied makes memcpy
\* write past the end of the buffer, which is undefined: the process is
\* terminated at the memcpy, or send() writes the buffer of header.length
\* bytes and the process goes on or is terminated when the damaged buffer
\* is freed.
send_response(resp) ==
  LET sent == [written |-> TRUE, terminated |-> FALSE, frame |-> Frame(resp)]
      died == [written |-> FALSE, terminated |-> TRUE, frame |-> Frame(resp)]
      both == [written |-> TRUE, terminated |-> TRUE, frame |-> Frame(resp)]
  IN IF resp.header.length > max_size THEN {died}
     ELSE IF resp.header.length >= Copied(resp) THEN {sent}
     ELSE {sent, died, both}

(***************************************************************************)
(* What the peers send.                                                    *)
(***************************************************************************)
Queries ==
  {"/add", "/multiply", "/divide", "/echo", "/status",
   "add", "", "/", "//add", "/Add"}

AddArgs == ("a" :> Dbl(2)) @@ ("b" :> Dbl(3))
MultiplyArgs == ("x" :> Dbl(2)) @@ ("y" :> Dbl(3))
DivideArgs == ("numerator" :> Dbl(6)) @@ ("denominator" :> Dbl(3))
DivideByZeroArgs == ("numerator" :> Dbl(6)) @@ ("denominator" :> Dbl(0))
ZeroByZeroArgs == ("numerator" :> Dbl(0)) @@ ("denominator" :> Dbl(0))
\* A divide request that leaves the denominator out.
NumeratorArgs == ("numerator" :> Dbl(6))
EchoArgs == ("message" :> StrVal("hi"))

Maps ==
  {AddArgs, MultiplyArgs, DivideArgs, DivideByZeroArgs, ZeroByZeroArgs,
   NumeratorArgs, EchoArgs, EmptyMap}

Bodies ==
  {EmptyBody, Garbage(5)} \cup {Json(m) : m \in Maps} \cup {Beve(m) : m \in Maps}

Ids == {7, 9}
Formats == 0..3

\* The header's length field: the frame's true length, or one the peer
\* made up (16 bytes more, or more than can be allocated).
LengthField(sel, ql, bl) ==
  CASE sel = "consistent" -> header_size + ql + bl
    [] sel = "padded" -> header_size + ql + bl + Len("Version mismatch")
    [] sel = "toobig" -> TooBig

Header(l, s, v, n, i, ql, bl, f) ==
  [length |-> l, spec |-> s, version |-> v, notify |-> n, id |-> i,
   query_length |-> ql, body_length |-> bl, body_format |-> f, ec |-> "none"]

\* Headers of version 1, of another version, and with a wrong magic.
HeadersFor(Qs, Bs) ==
  LET QL == {Len(q) : q \in Qs} \cup {TooBig}
      BL == {BodySize(b) : b \in Bs} \cup {TooBig}
  IN {Header(LengthField(sel, ql, bl), REPE_SPEC, 1, n, i, ql, bl, f) :
        sel \in {"consistent", "padded"}, n \in {0, 1}, i \in Ids,
        ql \in QL, bl \in BL, f \in Formats}
     \cup
     {Header(LengthField(sel, ql, bl), REPE_SPEC, 2, n, i, ql, bl, f) :
        sel \in {"consistent", "padded", "toobig"}, n \in {0, 1}, i \in Ids,
        ql \in QL \ {TooBig}, bl \in BL \ {TooBig}, f \in {2}}
     \cup
     {Header(LengthField("consistent", ql, 0), 0, v, n, i, ql, 0, f) :
        v \in {1, 2}, n \in {0, 1}, i \in Ids, ql \in {0, 4}, f \in {2}}

Headers == HeadersFor(Queries, Bodies)

(***************************************************************************)
(* The state after start(): the server listens, no connection yet.         *)
(***************************************************************************)
Init ==
  /\ running = TRUE
  /\ alive = TRUE
  /\ pc = [c \in Fds |-> "NotAccepted"]
  /\ request = [c \in Fds |-> EmptyMessage]
  /\ response = [c \in Fds |-> EmptyMessage]
  /\ bytes_read = [c \in Fds |-> 0]
  /\ wire = [c \in Fds |-> <<>>]
  /\ invoked = [c \in Fds |-> "none"]
  /\ nreq = [c \in Fds |-> 0]
  /\ nsent = [c \in Fds |-> 0]
  /\ nnonnotify = [c \in Fds |-> 0]
  /\ nerrors = [c \in Fds |-> 0]
  /\ closes = [c \in Fds |-> 0]

(***************************************************************************)
(* run: accept a connection and start its worker thread.                   *)
(***************************************************************************)
Accept(c) ==
  /\ alive /\ running
  /\ pc[c] = "NotAccepted"
  /\ pc' = [pc EXCEPT ![c] = "LoopTop"]
  /\ UNCHANGED <<running, alive, request, response, bytes_read, wire,
                 invoked, nreq, nsent, nnonnotify, nerrors, closes>>

(***************************************************************************)
(* handle_client                                                           *)
(***************************************************************************)
\* NewIteration with request and response declared outside the loop.
NewIteration_KeepsMessages(c) ==
  /\ alive
  /\ pc[c] = "LoopTop"
  /\ pc' = [pc EXCEPT ![c] = IF running THEN "AwaitingHeader" ELSE "Break"]
  /\ bytes_read' = [bytes_read EXCEPT ![c] = 0]
  /\ wire' = [wire EXCEPT ![c] = <<>>]
  /\ invoked' = [invoked EXCEPT ![c] = "none"]
  /\ UNCHANGED <<running, alive, request, response, nreq, nsent, nnonnotify,
                 nerrors, closes>>

\* while (running) and the construction of request and response.
NewIteration(c) ==
  /\ alive
  /\ pc[c] = "LoopTop"
  /\ IF running
       THEN /\ pc' = [pc EXCEPT ![c] = "AwaitingHeader"]
            /\ request' = [request EXCEPT ![c] = EmptyMessage]
            /\ response' = [response EXCEPT ![c] = EmptyMessage]
            /\ bytes_read' = [bytes_read EXCEPT ![c] = 0]
            /\ wire' = [wire EXCEPT ![c] = <<>>]
            /\ invoked' = [invoked EXCEPT ![c] = "none"]
       ELSE /\ pc' = [pc EXCEPT ![c] = "Break"]
            /\ UNCHANGED <<request, response, bytes_read, wire, invoked>>
  /\ UNCHANGED <<running, alive, nreq, nsent, nnonnotify, nerrors, closes>>

\* RecvHeader without the check of the magic.
RecvHeader_NoMagicCheck(c, Hs) ==
  /\ alive
  /\ pc[c] = "AwaitingHeader"
  /\ \/ \E n \in {-1, 0, 1, header_size - 1} :
          /\ bytes_read' = [bytes_read EXCEPT ![c] = n]
          /\ pc' = [pc EXCEPT ![c] = "Break"]
          /\ UNCHANGED <<request, nreq, nnonnotify>>
     \/ /\ nreq[c] < MaxRequests
        /\ \E h \in Hs :
             /\ bytes_read' = [bytes_read EXCEPT ![c] = header_size]
             /\ request' = [request EXCEPT ![c].header = h]
             /\ nreq' = [nreq EXCEPT ![c] = @ + 1]
             /\ pc' = [pc EXCEPT ![c] = "HaveHeader"]
             /\ nnonnotify' = [nnonnotify EXCEPT ![c] =
                  IF h.version # 1 /\ h.notify = 0 THEN @ + 1 ELSE @]
  /\ UNCHANGED <<running, alive, response, wire, invoked, nsent, nerrors, closes>>

\* RecvHeader that lets a header of another version through to the
\* version check whatever its magic.
RecvHeader_VersionFirst(c, Hs) ==
  /\ alive
  /\ pc[c] = "AwaitingHeader"
  /\ \/ \E n \in {-1, 0, 1, header_size - 1} :
          /\ bytes_read' = [bytes_read EXCEPT ![c] = n]
          /\ pc' = [pc EXCEPT ![c] = "Break"]
          /\ UNCHANGED <<request, nreq, nnonnotify>>
     \/ /\ nreq[c] < MaxRequests
        /\ \E h \in Hs :
             /\ bytes_read' = [bytes_read EXCEPT ![c] = header_size]
             /\ request' = [request EXCEPT ![c].header = h]
             /\ nreq' = [nreq EXCEPT ![c] = @ + 1]
             /\ pc' = [pc EXCEPT ![c] =
                         IF h.version = 1 /\ h.spec # REPE_SPEC
                           THEN "Break" ELSE "HaveHeader"]
             /\ nnonnotify' = [nnonnotify EXCEPT ![c] =
                  IF h.version # 1 /\ h.notify = 0 THEN @ + 1 ELSE @]
  /\ UNCHANGED <<running, alive, response, wire, invoked, nsent, nerrors, closes>>

\* recv of the header, its size check and the check of the magic.
RecvHeader(c, Hs) ==
  /\ alive
  /\ pc[c] = "AwaitingHeader"
  /\ \/ \E n \in {-1, 0, 1, header_size - 1} :
          \* the peer closed, recv failed, or the header came short
          /\ bytes_read' = [bytes_read EXCEPT ![c] = n]
          /\ pc' = [pc EXCEPT ![c] = "Break"]
          /\ UNCHANGED <<request, nreq, nnonnotify>>
     \/ /\ nreq[c] < MaxRequests
        /\ \E h \in Hs :
             /\ bytes_read' = [bytes_read EXCEPT ![c] = header_size]
             /\ request' = [request EXCEPT ![c].header = h]
             /\ nreq' = [nreq EXCEPT ![c] = @ + 1]
             /\ pc' = [pc EXCEPT ![c] =
                         IF h.spec # REPE_SPEC THEN "Break" ELSE "HaveHeader"]
             \* a request of another version is complete with its header
             /\ nnonnotify' = [nnonnotify EXCEPT ![c] =
                  IF h.spec = REPE_SPEC /\ h.version # 1 /\ h.notify = 0
                    THEN @ + 1 ELSE @]
  /\ UNCHANGED <<running, alive, response, wire, invoked, nsent, nerrors, closes>>

\* The response built for a header of another version.
version_mismatch(req, resp) ==
  [resp EXCEPT !.header = [req.header EXCEPT !.ec = "version_mismatch"],
               !.body = Text("Version mismatch")]

\* "Check version": the short-circuit response, then break.
VersionMismatch(c) ==
  /\ alive
  /\ pc[c] = "HaveHeader"
  /\ request[c].header.version # 1
  /\ LET resp == version_mismatch(request[c], response[c])
     IN /\ response' = [response EXCEPT ![c] = resp]
        /\ \E o \in send_response(resp) :
             /\ IF o.written
                  THEN /\ wire' = [wire EXCEPT ![c] = Append(@, o.frame)]
                       /\ nsent' = [nsent EXCEPT ![c] = @ + 1]
                  ELSE UNCHANGED <<wire, nsent>>
             /\ IF o.terminated
                  THEN alive' = FALSE /\ UNCHANGED pc
                  ELSE pc' = [pc EXCEPT ![c] = "Break"] /\ UNCHANGED alive
  /\ UNCHANGED <<running, request, bytes_read, invoked, nreq, nnonnotify,
                 nerrors, closes>>

\* "Read query if present"
RecvQuery(c, Qs) ==
  /\ alive
  /\ pc[c] = "HaveHeader"
  /\ request[c].header.version = 1
  /\ LET n == request[c].header.query_length
     IN \/ /\ n = 0
           /\ pc' = [pc EXCEPT ![c] = "HaveQuery"]
           /\ UNCHANGED <<alive, request, bytes_read>>
        \/ /\ n > max_size                 \* resize throws std::length_error
           /\ alive' = FALSE
           /\ UNCHANGED <<pc, request, bytes_read>>
        \/ /\ n \in 1..max_size
           /\ \E q \in Qs :
                /\ Len(q) = n
                /\ request' = [request EXCEPT ![c].query = q]
                /\ bytes_read' = [bytes_read EXCEPT ![c] = n]
                /\ pc' = [pc EXCEPT ![c] = "HaveQuery"]
           /\ UNCHANGED alive
        \/ /\ n \in 1..max_size
           /\ \E q \in Qs, k \in {-1, 0, n - 1} :
                \* the peer closed after k bytes of the query
                /\ Len(q) = n
                /\ request' = [request EXCEPT ![c].query =
                                 SubSeq(q, 1, IF k < 0 THEN 0 ELSE k)]
                /\ bytes_read' = [bytes_read EXCEPT ![c] = k]
                /\ pc' = [pc EXCEPT ![c] = "Break"]
           /\ UNCHANGED alive
  /\ UNCHANGED <<running, response, wire, invoked, nreq, nsent, nnonnotify,
                 nerrors, closes>>

\* RecvBody taking the size of the body from the header's length field.
RecvBody_ByLength(c, Bs) ==
  /\ alive
  /\ pc[c] = "HaveQuery"
  /\ LET n == request[c].header.length - header_size
                 - request[c].header.query_length
     IN \/ /\ n <= 0
           /\ pc' = [pc EXCEPT ![c] = "HaveBody"]
           /\ UNCHANGED <<request, bytes_read>>
        \/ /\ n > 0
           /\ \E b \in Bs :
                /\ BodySize(b) = n
                /\ request' = [request EXCEPT ![c].body = b]
                /\ bytes_read' = [bytes_read EXCEPT ![c] = n]
                /\ pc' = [pc EXCEPT ![c] = "HaveBody"]
        \/ /\ n > 0
           /\ request' = [request EXCEPT ![c].body = Partial(n)]
           /\ bytes_read' = [bytes_read EXCEPT ![c] = 0]
           /\ pc' = [pc EXCEPT ![c] = "Break"]
  /\ nnonnotify' = [nnonnotify EXCEPT ![c] =
       IF pc'[c] = "HaveBody" /\ request[c].header.notify = 0 THEN @ + 1 ELSE @]
  /\ UNCHANGED <<running, alive, response, wire, invoked, nreq, nsent, nerrors,
                 closes>>

\* "Read body if present"
RecvBody(c, Bs) ==
  /\ alive
  /\ pc[c] = "HaveQuery"
  /\ LET n == request[c].header.body_length
         counted == [nnonnotify EXCEPT ![c] =
                       IF request[c].header.notify = 0 THEN @ + 1 ELSE @]
     IN \/ /\ n = 0
           /\ pc' = [pc EXCEPT ![c] = "HaveBody"]
           /\ nnonnotify' = counted
           /\ UNCHANGED <<alive, request, bytes_read>>
        \/ /\ n > max_size                 \* resize throws std::length_error
           /\ alive' = FALSE
           /\ UNCHANGED <<pc, request, bytes_read, nnonnotify>>
        \/ /\ n \in 1..max_size
           /\ \E b \in Bs :
                /\ BodySize(b) = n
                /\ request' = [request EXCEPT ![c].body = b]
                /\ bytes_read' = [bytes_read EXCEPT ![c] = n]
                /\ pc' = [pc EXCEPT ![c] = "HaveBody"]
           /\ nnonnotify' = counted
           /\ UNCHANGED alive
        \/ /\ n \in 1..max_size
           /\ \E k \in {-1, 0, n - 1} :
                \* the peer closed after k bytes of the body
                /\ request' = [request EXCEPT ![c].body = Partial(n)]
                /\ bytes_read' = [bytes_read EXCEPT ![c] = k]
                /\ pc' = [pc EXCEPT ![c] = "Break"]
           /\ UNCHANGED <<alive, nnonnotify>>
  /\ UNCHANGED <<running, response, wire, invoked, nreq, nsent, nerrors,
                 closes>>

\* Dispatch that does not wait for the body.
Dispatch_BeforeBody(c) ==
  /\ alive
  /\ pc[c] \in {"HaveQuery", "HaveBody"}
  /\ LET p == process_request(request[c], response[c])
     IN /\ response' = [response EXCEPT ![c] = p.response]
        /\ invoked' = [invoked EXCEPT ![c] = p.invoked]
        /\ nerrors' = [nerrors EXCEPT ![c] =
                         IF p.response.header.ec # "none" THEN @ + 1 ELSE @]
  /\ pc' = [pc EXCEPT ![c] = "Dispatched"]
  /\ UNCHANGED <<running, alive, request, bytes_read, wire, nreq, nsent,
                 nnonnotify, closes>>

\* "Process the request"
Dispatch(c) ==
  /\ alive
  /\ pc[c] = "HaveBody"
  /\ LET p == process_request(request[c], response[c])
     IN /\ response' = [response EXCEPT ![c] = p.response]
        /\ invoked' = [invoked EXCEPT ![c] = p.invoked]
        /\ nerrors' = [nerrors EXCEPT ![c] =
                         IF p.response.header.ec # "none" THEN @ + 1 ELSE @]
  /\ pc' = [pc EXCEPT ![c] = "Dispatched"]
  /\ UNCHANGED <<running, alive, request, bytes_read, wire, nreq, nsent,
                 nnonnotify, closes>>

\* Suppress that sends the response all the same.
Suppress_Sends(c) ==
  /\ alive
  /\ pc[c] = "Dispatched"
  /\ request[c].header.notify # 0
  /\ wire' = [wire EXCEPT ![c] = Append(@, Frame(response[c]))]
  /\ nsent' = [nsent EXCEPT ![c] = @ + 1]
  /\ pc' = [pc EXCEPT ![c] = "LoopTop"]
  /\ UNCHANGED <<running, alive, request, response, bytes_read, invoked,
                 nreq, nnonnotify, nerrors, closes>>

\* Suppress that drops results only: an error is written to the peer.
Suppress_ErrorsAnswered(c) ==
  /\ alive
  /\ pc[c] = "Dispatched"
  /\ request[c].header.notify # 0
  /\ IF response[c].header.ec # "none"
       THEN /\ wire' = [wire EXCEPT ![c] = Append(@, Frame(response[c]))]
            /\ nsent' = [nsent EXCEPT ![c] = @ + 1]
       ELSE UNCHANGED <<wire, nsent>>
  /\ pc' = [pc EXCEPT ![c] = "LoopTop"]
  /\ UNCHANGED <<running, alive, request, response, bytes_read, invoked,
                 nreq, nnonnotify, nerrors, closes>>

\* "Don't send response for notify requests": continue.
Suppress(c) ==
  /\ alive
  /\ pc[c] = "Dispatched"
  /\ request[c].header.notify # 0
  /\ pc' = [pc EXCEPT ![c] = "LoopTop"]
  /\ UNCHANGED <<running, alive, request, response, bytes_read, wire,
                 invoked, nreq, nsent, nnonnotify, nerrors, closes>>

\* Respond that writes the frame twice.
Respond_Twice(c) ==
  /\ alive
  /\ pc[c] = "Dispatched"
  /\ request[c].header.notify = 0
  /\ wire' = [wire EXCEPT ![c] =
                Append(Append(@, Frame(response[c])), Frame(response[c]))]
  /\ nsent' = [nsent EXCEPT ![c] = @ + 2]
  /\ pc' = [pc EXCEPT ![c] = "LoopTop"]
  /\ UNCHANGED <<running, alive, request, response, bytes_read, invoked,
                 nreq, nnonnotify, nerrors, closes>>

\* Respond that leaves the loop after an error response.
Respond_BreaksOnError(c) ==
  /\ alive
  /\ pc[c] = "Dispatched"
  /\ request[c].header.notify = 0
  /\ wire' = [wire EXCEPT ![c] = Append(@, Frame(response[c]))]
  /\ nsent' = [nsent EXCEPT ![c] = @ + 1]
  /\ pc' = [pc EXCEPT ![c] =
              IF response[c].header.ec # "none" THEN "Break" ELSE "LoopTop"]
  /\ UNCHANGED <<running, alive, request, response, bytes_read, invoked,
                 nreq, nnonnotify, nerrors, closes>>

\* Respond that has no way on after an error.
Respond_OnlySuccess(c) ==
  /\ alive
  /\ pc[c] = "Dispatched"
  /\ request[c].header.notify = 0
  /\ response[c].header.ec = "none"
  /\ wire' = [wire EXCEPT ![c] = Append(@, Frame(response[c]))]
  /\ nsent' = [nsent EXCEPT ![c] = @ + 1]
  /\ pc' = [pc EXCEPT ![c] = "LoopTop"]
  /\ UNCHANGED <<running, alive, request, response, bytes_read, invoked,
                 nreq, nnonnotify, nerrors, closes>>

\* "Send response"
Respond(c) ==
  /\ alive
  /\ pc[c] = "Dispatched"
  /\ request[c].header.notify = 0
  /\ \E o \in send_response(response[c]) :
       /\ IF o.written
            THEN /\ wire' = [wire EXCEPT ![c] = Append(@, o.frame)]
                 /\ nsent' = [nsent EXCEPT ![c] = @ + 1]
            ELSE UNCHANGED <<wire, nsent>>
       /\ IF o.terminated
            THEN alive' = FALSE /\ UNCHANGED pc
            ELSE pc' = [pc EXCEPT ![c] = "LoopTop"] /\ UNCHANGED alive
  /\ UNCHANGED <<running, request, response, bytes_read, invoked, nreq,
                 nnonnotify, nerrors, closes>>

\* close_socket(client_fd) after the loop.
CloseSocket(c) ==
  /\ alive
  /\ pc[c] = "Break"
  /\ pc' = [pc EXCEPT ![c] = "Closed"]
  /\ closes' = [closes EXCEPT ![c] = @ + 1]
  /\ UNCHANGED <<running, alive, request, response, bytes_read, wire,
                 invoked, nreq, nsent, nnonnotify, nerrors>>

Worker(c, Hs, Qs, Bs) ==
  \/ NewIteration(c)
  \/ RecvHeader(c, Hs)
  \/ VersionMismatch(c)
  \/ RecvQuery(c, Qs)
  \/ RecvBody(c, Bs)
  \/ Dispatch(c)
  \/ Suppress(c)
  \/ Respond(c)
  \/ CloseSocket(c)

(***************************************************************************)
(* Spec: the server with one client, which sends up to MaxRequests         *)
(* requests drawn from Headers, Queries and Bodies.                        *)
(***************************************************************************)
Solo == {1}

Next == \E c \in Solo : Accept(c) \/ Worker(c, Headers, Queries, Bodies)

Spec == Init /\ [][Next]_vars

(***************************************************************************)
(* Vocabulary of the properties.                                           *)
(***************************************************************************)
Registered == {"add", "multiply", "divide", "echo", "status"}
Recoverable == {"method_not_found", "parse_error", "invalid_body"}

\* process_request has run on request[c] in the iteration c is in or has
\* just finished.
Dispatched(c) == pc[c] \in {"Dispatched", "LoopTop"} /\ nreq[c] > 0

\* The header of request[c] had the magic and another version than 1.
OtherVersion(c) ==
  /\ bytes_read[c] = header_size
  /\ request[c].header.spec = REPE_SPEC
  /\ request[c].header.version # 1

\* The query and body bytes of frame f that are inside the buffer written.
QueryBytesIn(f) ==
  LET room == f.size - header_size
  IN IF room <= 0 THEN 0 ELSE IF room < Len(f.query) THEN room ELSE Len(f.query)

BodyBytesIn(f) ==
  LET room == f.size - header_size - Len(f.query)
  IN IF room <= 0 THEN 0
     ELSE IF room < BodySize(f.body) THEN room ELSE BodySize(f.body)

(***************************************************************************)
(* C1.  Every frame written has header.length = header_size +              *)
(* header.query_length + header.body_length, its query_length and          *)
(* body_length are the query and body bytes placed in the frame, and the   *)
(* buffer written has that total size.                                     *)
(* The version-mismatch response breaks this: its header is the peer's,    *)
(* lengths included, while the frame holds no query and a 16-byte body.    *)
(***************************************************************************)
C1_EveryFrameWellFormed ==
  \A c \in Fds : \A i \in 1..Len(wire[c]) :
    LET f == wire[c][i]
    IN /\ f.header.length =
            header_size + f.header.query_length + f.header.body_length
       /\ f.header.query_length = Len(f.query)
       /\ f.header.query_length = QueryBytesIn(f)
       /\ f.header.body_length = BodySize(f.body)
       /\ f.header.body_length = BodyBytesIn(f)
       /\ f.size = header_size + Len(f.query) + BodySize(f.body)

(***************************************************************************)
(* C2.  On a header with the magic and a version other than 1 the worker   *)
(* writes exactly one response, with ec = version_mismatch and the body    *)
(* "Version mismatch", and leaves the loop, whatever the notify flag.      *)
(* The buffer of that response is sized by the peer's length field (C1):   *)
(* with a length above max_size nothing is written and the process ends,   *)
(* and with a length below 64 the body is not wholly in the frame.         *)
(***************************************************************************)
C2_VersionMismatchAnswered ==
  [][\A c \in Fds :
       (pc[c] = "HaveHeader" /\ request[c].header.version # 1)
       => /\ pc'[c] = "Break"
          /\ alive'
          /\ nsent'[c] = nsent[c] + 1
          /\ Len(wire'[c]) = 1
          /\ wire'[c][1].header.ec = "version_mismatch"
          /\ wire'[c][1].body = Text("Version mismatch")
          /\ BodyBytesIn(wire'[c][1]) = Len("Version mismatch")]_vars

(***************************************************************************)
(* C3.  A request of version 1 with notify set is dispatched                *)
(* (process_request runs on it), nothing is written for it, and the        *)
(* worker goes on to read the next header on the connection, which stays   *)
(* open.                                                                   *)
(***************************************************************************)
C3_NotifyDispatchedNotAnswered ==
  [][\A c \in Fds :
       LET notified == request[c].header.notify # 0
           p == process_request(request[c], EmptyMessage)
           silent == /\ wire'[c] = <<>>
                     /\ nsent'[c] = nsent[c]
                     /\ closes'[c] = 0
                     /\ alive'
       IN /\ (pc[c] = "HaveBody" /\ notified)
             => /\ request[c].header.spec = REPE_SPEC
                /\ request[c].header.version = 1
                /\ pc'[c] = "Dispatched"
                /\ response'[c] = p.response
                /\ invoked'[c] = p.invoked
                /\ silent
          /\ (pc[c] = "Dispatched" /\ notified)
             => pc'[c] = "LoopTop" /\ silent
          /\ (pc[c] = "LoopTop" /\ nreq[c] > 0 /\ notified)
             => pc'[c] = "AwaitingHeader" /\ silent]_vars

\* The second of two notify requests has called add, nothing was written
\* on the connection, and the worker is back at the top of its loop.
C3_Witness ==
  \E c \in Fds :
    /\ pc[c] = "LoopTop" /\ nreq[c] = 2 /\ nnonnotify[c] = 0
    /\ request[c].header.notify # 0
    /\ invoked[c] = "add"
    /\ response[c].body = Json(Result(Dbl(5)))
    /\ nsent[c] = 0 /\ closes[c] = 0

(***************************************************************************)
(* C4.  On a connection the Nth response written answers the Nth request   *)
(* whose notify flag is clear: it carries that request's id and result;    *)
(* responses are not reordered, duplicated or skipped.                     *)
(* As stated this fails: a request of another version is answered even     *)
(* when its notify flag is set.                                            *)
(***************************************************************************)
\* The response the program owes to a request.
Answer(req) ==
  IF req.header.version # 1
    THEN version_mismatch(req, EmptyMessage)
    ELSE process_request(req, EmptyMessage).response

C4_NthResponseToNthNonNotify ==
  \A c \in Fds :
    /\ wire[c] # <<>>
       => /\ Len(wire[c]) = 1
          /\ request[c].header.notify = 0
          /\ nsent[c] = nnonnotify[c]
          /\ wire[c][1].header.id = request[c].header.id
          /\ wire[c][1] = Frame(Answer(request[c]))
    /\ (pc[c] = "LoopTop" /\ nreq[c] > 0 /\ request[c].header.notify = 0)
       => wire[c] # <<>>

(***************************************************************************)
(* C4, amended.  The Nth frame written is the one send_response builds     *)
(* from the answer to the Nth request that has notify clear or a version   *)
(* other than 1 (a version-mismatch request is answered whatever its       *)
(* notify flag, by at most one frame, the last of the connection); it      *)
(* carries that request's id, and for a dispatched request the result of   *)
(* its method and parameters.  Answers to dispatched requests are not      *)
(* reordered, duplicated or skipped.                                       *)
(***************************************************************************)
C4_NthResponseToNthAnswerable ==
  \A c \in Fds :
    /\ wire[c] # <<>>
       => /\ Len(wire[c]) = 1
          /\ request[c].header.notify = 0 \/ OtherVersion(c)
          /\ nsent[c] = nnonnotify[c] +
               (IF OtherVersion(c) /\ request[c].header.notify # 0 THEN 1 ELSE 0)
          /\ wire[c][1].header.id = request[c].header.id
          /\ wire[c][1] = Frame(Answer(request[c]))
          /\ (OtherVersion(c) /\ alive) => pc[c] \in {"Break", "Closed"}
    /\ (pc[c] = "LoopTop" /\ nreq[c] > 0 /\ request[c].header.notify = 0)
       => /\ wire[c] # <<>>
          /\ (request[c].query = "/add" /\ request[c].body = Json(AddArgs)
              /\ request[c].header.body_format = 2)
             => /\ wire[c][1].body = Json(Result(Dbl(5)))
                /\ wire[c][1].header.ec = "none"
          /\ (request[c].query = "/divide" /\ request[c].body = Beve(DivideArgs)
              /\ request[c].header.body_format = 1)
             => /\ wire[c][1].body = Beve(Result(Dbl(2)))
                /\ wire[c][1].header.ec = "none"
    /\ pc[c] \in {"LoopTop", "AwaitingHeader"} => nsent[c] = nnonnotify[c]

\* The second request is the first with notify clear, and the first
\* response written carries its id and its sum.
C4_Witness ==
  \E c \in Fds :
    /\ pc[c] = "LoopTop" /\ nreq[c] = 2 /\ nnonnotify[c] = 1 /\ nsent[c] = 1
    /\ request[c].header.notify = 0 /\ request[c].header.id = 9
    /\ request[c].query = "/add" /\ request[c].body = Json(AddArgs)
    /\ Len(wire[c]) = 1
    /\ wire[c][1].header.id = 9
    /\ wire[c][1].body = Json(Result(Dbl(5)))

(***************************************************************************)
(* C5.  Every response sent carries the request's id and query verbatim    *)
(* and has spec = 0x1507 and version = 1, the version-mismatch response    *)
(* included.                                                               *)
(* As stated this fails: the version-mismatch response is sent before the  *)
(* query is read and carries the header of the request, and with it the    *)
(* request's version.                                                      *)
(***************************************************************************)
C5_EveryResponseEchoesAndRestamps ==
  \A c \in Fds : \A i \in 1..Len(wire[c]) :
    LET f == wire[c][i]
    IN /\ f.header.id = request[c].header.id
       /\ f.query = request[c].query
       /\ f.header.spec = REPE_SPEC
       /\ f.header.version = 1

(***************************************************************************)
(* C5, amended.  Every response that process_request produced, error       *)
(* responses included, is sent with the request's id, the request's query  *)
(* verbatim (its leading '/' included), spec = 0x1507 and version = 1.     *)
(* The version-mismatch response is sent with the request's id and         *)
(* spec = 0x1507, but with the request's own version and an empty query.   *)
(***************************************************************************)
C5_ResponsesEchoIdAndQuery ==
  \A c \in Fds : \A i \in 1..Len(wire[c]) :
    LET f == wire[c][i]
    IN /\ f.header.id = request[c].header.id
       /\ f.header.id \in Ids
       /\ f.header.spec = REPE_SPEC
       /\ IF OtherVersion(c)
            THEN /\ f.header.version = request[c].header.version
                 /\ f.header.ec = "version_mismatch"
                 /\ f.query = ""
            ELSE /\ f.header.version = 1
                 /\ f.query = request[c].query
                 /\ f.header.query_length = Len(request[c].query)
                 /\ request[c].header.query_length = Len(request[c].query)

\* The second request, "//add" with id 9, answered not found with its id
\* and its query.
C5_Witness ==
  \E c \in Fds :
    /\ pc[c] = "LoopTop" /\ nreq[c] = 2
    /\ request[c].header.id = 9 /\ request[c].query = "//add"
    /\ Len(wire[c]) = 1
    /\ wire[c][1].header.id = 9
    /\ wire[c][1].query = "//add"
    /\ wire[c][1].header.ec = "method_not_found"
    /\ wire[c][1].header.version = 1

(***************************************************************************)
(* C6.  A request that ends in method_not_found, parse_error or            *)
(* invalid_body is reported through the response only (ec set, body_format *)
(* 3, a text body); the connection is not closed, the worker returns to    *)
(* await the next header with fresh messages, and the next request is      *)
(* answered as on a new connection, however many errors came before.       *)
(***************************************************************************)
C6_RecoverableErrorsKeepServing ==
  /\ [](\A c \in Fds :
          /\ (Dispatched(c) /\ response[c].header.ec \in Recoverable)
             => /\ response[c].header.body_format = 3
                /\ response[c].body.enc = "utf8"
                /\ BodySize(response[c].body) > 0
                /\ closes[c] = 0 /\ alive
                /\ (pc[c] = "LoopTop" /\ request[c].header.notify = 0)
                   => wire[c] = <<Frame(response[c])>>
          /\ Dispatched(c) => /\ response[c] = Answer(request[c])
                              /\ response[c].header.ec \in Recoverable \cup {"none"}
                              /\ nerrors[c] <= nreq[c])
  /\ [][\A c \in Fds :
          LET failed == response[c].header.ec \in Recoverable
          IN /\ (pc[c] = "Dispatched" /\ failed)
                => pc'[c] = "LoopTop" /\ closes'[c] = 0 /\ alive'
             /\ (pc[c] = "LoopTop" /\ nreq[c] > 0 /\ failed)
                => /\ pc'[c] = "AwaitingHeader"
                   /\ request'[c] = EmptyMessage
                   /\ response'[c] = EmptyMessage
                   /\ closes'[c] = 0 /\ alive']_vars

\* After an error on its first request the connection answers the second
\* with the sum.
C6_Witness ==
  \E c \in Fds :
    /\ pc[c] = "LoopTop" /\ nreq[c] = 2 /\ nerrors[c] = 1
    /\ response[c].header.ec = "none"
    /\ request[c].header.notify = 0
    /\ Len(wire[c]) = 1
    /\ wire[c][1].body = Json(Result(Dbl(5)))
    /\ closes[c] = 0

(***************************************************************************)
(* C7.  When recv returns no byte or a short header, the magic is wrong,   *)
(* or the query or the body comes short, the worker writes nothing for     *)
(* the request, does not dispatch it, leaves the loop, closes the socket   *)
(* once and never reads from or writes to it again.                        *)
(***************************************************************************)
C7_TransportFatalClosesSilently ==
  /\ [](\A c \in Fds :
          /\ closes[c] <= 1
          /\ pc[c] = "Closed" <=> closes[c] = 1
          /\ (pc[c] \in {"Break", "Closed"} /\ ~OtherVersion(c))
             => /\ wire[c] = <<>>
                /\ invoked[c] = "none"
                /\ response[c] = EmptyMessage)
  /\ [][\A c \in Fds :
          LET h == request[c].header
              untouched == /\ wire'[c] = wire[c]
                           /\ nsent'[c] = nsent[c]
                           /\ request'[c] = request[c]
                           /\ response'[c] = response[c]
                           /\ bytes_read'[c] = bytes_read[c]
                           /\ invoked'[c] = invoked[c]
                           /\ nreq'[c] = nreq[c]
          IN /\ (pc[c] = "AwaitingHeader"
                 /\ (bytes_read'[c] # header_size
                     \/ request'[c].header.spec # REPE_SPEC))
                => pc'[c] = "Break" /\ wire'[c] = <<>> /\ nsent'[c] = nsent[c]
             /\ (pc[c] = "HaveHeader" /\ h.version = 1
                 /\ h.query_length \in 1..max_size
                 /\ bytes_read'[c] # h.query_length)
                => pc'[c] = "Break" /\ wire'[c] = <<>> /\ nsent'[c] = nsent[c]
             /\ (pc[c] = "HaveQuery" /\ h.body_length \in 1..max_size
                 /\ bytes_read'[c] # h.body_length)
                => pc'[c] = "Break" /\ wire'[c] = <<>> /\ nsent'[c] = nsent[c]
             /\ pc[c] = "Break"
                => pc'[c] = "Closed" /\ closes'[c] = closes[c] + 1 /\ untouched
             /\ pc[c] = "Closed"
                => pc'[c] = "Closed" /\ closes'[c] = closes[c] /\ untouched]_vars

\* The second request's body came one byte short: after one response the
\* socket is closed, with nothing written for that request.
C7_Witness ==
  \E c \in Fds :
    /\ pc[c] = "Closed" /\ closes[c] = 1
    /\ nreq[c] = 2 /\ nsent[c] = 1
    /\ request[c].query = "/add"
    /\ request[c].header.body_length = 13 /\ bytes_read[c] = 12
    /\ wire[c] = <<>> /\ invoked[c] = "none"

(***************************************************************************)
(* C8.  For a request to a registered method whose body cannot be decoded  *)
(* in the format its tag declares (the bytes are not of that codec or do   *)
(* not carry the parameters' type, or the tag is neither 1 nor 2), the     *)
(* response has ec = parse_error, the body "Invalid parameters for         *)
(* <name>" and body_format 3, and the method is not called.                *)
(* As stated this fails for status, which takes no parameters: its body    *)
(* is never decoded.                                                       *)
(***************************************************************************)
ParamType(name) == IF name = "echo" THEN "string" ELSE "double"

\* The bytes of the body are of the codec the tag declares.
CodecMatches(req) ==
  \/ req.header.body_format = 1 /\ req.body.enc = "beve"
  \/ req.header.body_format = 2 /\ req.body.enc = "json"

CannotDecode(req, name) ==
  \/ ~CodecMatches(req)
  \/ name # "status"
     /\ \E k \in DOMAIN req.body.val :
          req.body.val[k].t # (IF ParamType(name) = "string" THEN "str" ELSE "num")

ParseErrorFor(c, name) ==
  /\ response[c].header.ec = "parse_error"
  /\ response[c].body = Text("Invalid parameters for " \o name)
  /\ response[c].header.body_format = 3
  /\ invoked[c] = "none"

C8_UndecodableBodyIsParseError ==
  \A c \in Fds :
    LET name == MethodName(request[c].query)
    IN (Dispatched(c) /\ name \in Registered /\ CannotDecode(request[c], name))
       => ParseErrorFor(c, name)

(***************************************************************************)
(* C8, amended.  The statement holds for add, multiply, divide and echo.   *)
(* A status request is answered with ec = none whatever its body and       *)
(* format tag.                                                             *)
(***************************************************************************)
C8_UndecodableParametersAreParseError ==
  \A c \in Fds :
    LET name == MethodName(request[c].query)
    IN /\ (Dispatched(c) /\ name \in Registered \ {"status"}
           /\ CannotDecode(request[c], name))
          => /\ ParseErrorFor(c, name)
             /\ response[c].header.body_length
                  = Len("Invalid parameters for ") + Len(name)
       /\ (Dispatched(c) /\ name = "status")
          => /\ response[c].header.ec = "none"
             /\ invoked[c] = "status"

\* An echo request tagged JSON whose body maps its keys to numbers, and an
\* add request tagged UTF8, both answered with parse_error.
C8_Witness ==
  \E c \in Fds :
    /\ pc[c] = "LoopTop" /\ nreq[c] = 2 /\ nerrors[c] = 2
    /\ request[c].query = "/echo"
    /\ request[c].header.body_format = 2
    /\ request[c].body = Json(AddArgs)
    /\ request[c].header.notify = 0
    /\ Len(wire[c]) = 1
    /\ wire[c][1].header.ec = "parse_error"
    /\ wire[c][1].body = Text("Invalid parameters for echo")

(***************************************************************************)
(* C9.  Whenever a method succeeds, the response has ec = none and its     *)
(* body_format equals the body_format of the request.                      *)
(* As stated this fails for status, which succeeds under every tag: under  *)
(* a tag other than 1 its result is written as JSON, tag 2.                *)
(***************************************************************************)
Succeeded(c) ==
  /\ Dispatched(c)
  /\ invoked[c] # "none"
  /\ response[c].header.ec # "invalid_body"

C9_SuccessEchoesFormat ==
  \A c \in Fds :
    Succeeded(c)
    => /\ response[c].header.ec = "none"
       /\ response[c].header.body_format = request[c].header.body_format

(***************************************************************************)
(* C9, amended.  Whenever a method succeeds, the response has ec = none;   *)
(* its body_format is 1 (and its body BEVE) when the request's is 1, and   *)
(* 2 (JSON) otherwise.  It therefore equals the request's for add,         *)
(* multiply, divide and echo, which succeed only under the tags 1 and 2,   *)
(* and for status under the tags 1 and 2.                                  *)
(***************************************************************************)
C9_SuccessEncodedAsBeveOrJson ==
  \A c \in Fds :
    Succeeded(c)
    => /\ response[c].header.ec = "none"
       /\ IF request[c].header.body_format = 1
            THEN /\ response[c].header.body_format = 1
                 /\ response[c].body.enc = "beve"
            ELSE /\ response[c].header.body_format = 2
                 /\ response[c].body.enc = "json"
       /\ (invoked[c] # "status" \/ request[c].header.body_format \in {1, 2})
          => response[c].header.body_format = request[c].header.body_format
       /\ invoked[c] # "status" => request[c].header.body_format \in {1, 2}

\* A multiply request in BEVE answered in BEVE.
C9_Witness ==
  \E c \in Fds :
    /\ pc[c] = "LoopTop" /\ nreq[c] = 1
    /\ invoked[c] = "multiply"
    /\ request[c].header.body_format = 1
    /\ request[c].header.notify = 0
    /\ Len(wire[c]) = 1
    /\ wire[c][1].header.body_format = 1
    /\ wire[c][1].header.ec = "none"
    /\ wire[c][1].body = Beve(Result(Dbl(6)))

(***************************************************************************)
(* C10.  The method name is the query without its first character when     *)
(* that is '/', compared exactly.  A query whose name is none of add,      *)
(* multiply, divide, echo, status ("", "//add" and "/Add" among them) is   *)
(* answered with ec = method_not_found, the body "Method not found:        *)
(* <name>" and body_format 3, and no method is called; a query whose name  *)
(* is one of them is not.                                                  *)
(***************************************************************************)
\* The query with one leading '/' removed, character by character.
StrippedOnce(q) ==
  IF Len(q) > 0 /\ SubSeq(q, 1, 1) = "/" THEN SubSeq(q, 2, Len(q)) ELSE q

C10_UnknownMethodIsNotFound ==
  \A c \in Fds :
    LET name == StrippedOnce(request[c].query)
        notfound == response[c].header.ec = "method_not_found"
    IN Dispatched(c)
       => /\ name \notin Registered
             => /\ notfound
                /\ response[c].body = Text("Method not found: " \o name)
                /\ response[c].header.body_format = 3
                /\ response[c].header.body_length = 18 + Len(name)
                /\ invoked[c] = "none"
          /\ name \in Registered => ~notfound
          /\ request[c].query = "//add"
             => response[c].body = Text("Method not found: /add")
          /\ request[c].query = "/Add"
             => response[c].body = Text("Method not found: Add")
          /\ request[c].query \in {"", "/"}
             => response[c].body = Text("Method not found: ")
          /\ request[c].query \in {"add", "/add"}
             => response[c].header.ec \in {"none", "parse_error"}

\* The query "//add" with a body add could decode, answered not found.
C10_Witness ==
  \E c \in Fds :
    /\ pc[c] = "LoopTop" /\ nreq[c] = 1
    /\ request[c].query = "//add"
    /\ request[c].body = Json(AddArgs)
    /\ request[c].header.body_format = 2
    /\ request[c].header.notify = 0
    /\ Len(wire[c]) = 1
    /\ wire[c][1].header.ec = "method_not_found"
    /\ wire[c][1].body = Text("Method not found: /add")
    /\ wire[c][1].header.body_format = 3

(***************************************************************************)
(* C11.  A divide request whose body decodes and whose denominator is 0    *)
(* is answered with ec = invalid_body, the body "Division by zero" and     *)
(* body_format 3, whatever the numerator.  The exception stays inside      *)
(* process_request: the process goes on, the connection is not closed and  *)
(* the worker returns to await the next header.                            *)
(***************************************************************************)
\* request[c] is a divide request that decodes with a denominator of 0.
DividesByZero(c) ==
  /\ MethodName(request[c].query) = "divide"
  /\ decode_params("double", request[c]).ok
  /\ AtDouble(request[c].body.val, "denominator") = 0

C11_DivisionByZeroIsInvalidBody ==
  /\ [](\A c \in Fds :
          (Dispatched(c) /\ DividesByZero(c))
          => /\ response[c].header.ec = "invalid_body"
             /\ response[c].body = Text("Division by zero")
             /\ response[c].header.body_format = 3
             /\ response[c].header.body_length = Len("Division by zero")
             /\ invoked[c] = "divide"
             /\ alive /\ closes[c] = 0
             /\ (pc[c] = "LoopTop" /\ request[c].header.notify = 0)
                => wire[c] = <<Frame(response[c])>>)
  /\ [][\A c \in Fds :
          /\ (pc[c] = "HaveBody" /\ DividesByZero(c))
             => pc'[c] = "Dispatched" /\ alive'
          /\ (pc[c] = "Dispatched" /\ DividesByZero(c))
             => pc'[c] = "LoopTop" /\ alive' /\ closes'[c] = 0
          /\ (pc[c] = "LoopTop" /\ nreq[c] > 0 /\ DividesByZero(c))
             => pc'[c] = "AwaitingHeader" /\ alive' /\ closes'[c] = 0]_vars

\* 0 / 0, sent in BEVE as the second request of the connection, is
\* answered with invalid_body and the connection stays open.
C11_Witness ==
  \E c \in Fds :
    /\ pc[c] = "LoopTop" /\ nreq[c] = 2
    /\ request[c].body = Beve(ZeroByZeroArgs)
    /\ request[c].header.notify = 0
    /\ DividesByZero(c)
    /\ Len(wire[c]) = 1
    /\ wire[c][1].header.ec = "invalid_body"
    /\ wire[c][1].body = Text("Division by zero")
    /\ wire[c][1].header.body_format = 3
    /\ closes[c] = 0 /\ alive

(***************************************************************************)
(* ConcSpec: run accepts up to MaxConns connections and their workers run  *)
(* concurrently, each step of handle_client interleaved with the steps of  *)
(* the other workers.  The peers send MaxRequests headers in all.          *)
(***************************************************************************)
OtherAddArgs == ("a" :> Dbl(4)) @@ ("b" :> Dbl(5))

ConcQueries == {"/add"}
ConcBodies == {Json(AddArgs), Json(OtherAddArgs)}

\* An add request or notification under either id, a header whose query_length cannot be
\* allocated, a header of another version, and a header with a wrong magic.
ConcHeaders ==
  LET ql == Len("/add")
      bl == BodySize(Json(AddArgs))
  IN {Header(header_size + ql + bl, REPE_SPEC, 1, n, i, ql, bl, 2) :
        n \in {0, 1}, i \in Ids}
     \cup {Header(header_size + TooBig, REPE_SPEC, 1, 0, 7, TooBig, 0, 2),
           Header(header_size, REPE_SPEC, 2, 0, 7, 0, 0, 2),
           Header(header_size, 0, 1, 0, 7, 0, 0, 2)}

RECURSIVE SumOver(_, _)
SumOver(f, S) ==
  IF S = {} THEN 0
  ELSE LET x == CHOOSE y \in S : TRUE IN f[x] + SumOver(f, S \ {x})

\* recv of a header, while the peers have headers left to send.
ConcRecvHeader(c) ==
  /\ RecvHeader(c, ConcHeaders)
  /\ nreq'[c] = nreq[c] \/ SumOver(nreq, Fds) < MaxRequests

ConcWorker(c) ==
  \/ NewIteration(c)
  \/ ConcRecvHeader(c)
  \/ VersionMismatch(c)
  \/ RecvQuery(c, ConcQueries)
  \/ RecvBody(c, ConcBodies)
  \/ Dispatch(c)
  \/ Suppress(c)
  \/ Respond(c)
  \/ CloseSocket(c)

ConcNext == \E c \in Fds : Accept(c) \/ ConcWorker(c)

ConcSpec == Init /\ [][ConcNext]_vars

(***************************************************************************)
(* C12.  With the workers of several connections interleaved, every frame  *)
(* written on a connection answers a request received on that connection   *)
(* (its id, the sum of its operands), and a step of one worker leaves      *)
(* every other connection as it was: its messages, its frames and whether  *)
(* it is open.                                                             *)
(* The last part fails.  An exception that leaves a worker thread ends     *)
(* the process, and with it every connection: std::length_error from the   *)
(* resize of request.query to a query_length that cannot be allocated,     *)
(* or from the buffer of the version-mismatch response (C1).               *)
(***************************************************************************)
\* The socket of connection c is open and its worker runs.
Open(c) == alive /\ pc[c] \notin {"NotAccepted", "Closed"}

OwnAnswers(c) ==
  \A i \in 1..Len(wire[c]) :
    /\ wire[c][i].header.id = request[c].header.id
    /\ wire[c][i] = Frame(Answer(request[c]))
    /\ request[c].header.version = 1
       => wire[c][i].body =
            Json(Result(Dbl(request[c].body.val["a"].n
                            + request[c].body.val["b"].n)))

\* A step of worker c leaves connection d alone.
LeavesAlone(c, d) ==
  pc'[c] # pc[c]
  => /\ pc'[d] = pc[d]
     /\ request'[d] = request[d]
     /\ response'[d] = response[d]
     /\ wire'[d] = wire[d]
     /\ nsent'[d] = nsent[d]
     /\ closes'[d] = closes[d]

\* The request worker d is reading makes d itself end the process.
OwnFault(d) ==
  \/ pc[d] = "HaveHeader"
     /\ \/ request[d].header.version # 1
        \/ request[d].header.query_length > max_size
  \/ pc[d] = "HaveQuery" /\ request[d].header.body_length > max_size

C12_ConnectionsIsolated ==
  /\ [](\A c \in Fds : OwnAnswers(c))
  /\ [][\A c \in Fds : \A d \in Fds \ {c} :
          /\ LeavesAlone(c, d)
          /\ (Open(d) /\ ~OwnFault(d)) => (Open(d)' \/ pc'[d] = "Closed")]_vars

(***************************************************************************)
(* C13.  For every request that is dispatched the worker has taken from    *)
(* the stream header_size + query_length + body_length bytes, the two      *)
(* lengths being those of the header and the header's length field         *)
(* playing no part.  Whatever the outcome (a result, method_not_found,     *)
(* parse_error, invalid_body, a notification), nothing more is read until  *)
(* the next iteration reads the next header, which therefore starts at     *)
(* the first byte of the next frame.                                       *)
(***************************************************************************)
\* The bytes the recv calls of this iteration have taken from the stream
\* of connection c, once its header has come whole.
Consumed(c) ==
  header_size + Len(request[c].query)
  + (IF request[c].body.enc = "partial"
       THEN (IF bytes_read[c] > 0 THEN bytes_read[c] ELSE 0)
       ELSE BodySize(request[c].body))

C13_ConsumesExactlyTheFrame ==
  /\ [](\A c \in Fds :
          LET h == request[c].header
          IN (pc[c] = "HaveBody" \/ Dispatched(c))
             => /\ Len(request[c].query) = h.query_length
                /\ request[c].body.enc # "partial"
                /\ BodySize(request[c].body) = h.body_length
                /\ bytes_read[c] =
                     (IF h.body_length > 0 THEN h.body_length
                      ELSE IF h.query_length > 0 THEN h.query_length
                      ELSE header_size)
                /\ Consumed(c) = header_size + h.query_length + h.body_length)
  /\ [][\A c \in Fds :
          /\ pc[c] \in {"HaveBody", "Dispatched"}
             => /\ request'[c] = request[c]
                /\ bytes_read'[c] = bytes_read[c]
                /\ pc'[c] \in {"Dispatched", "LoopTop"}
          /\ (pc[c] = "LoopTop" /\ nreq[c] > 0)
             => /\ pc'[c] = "AwaitingHeader"
                /\ request'[c] = EmptyMessage
                /\ bytes_read'[c] = 0
          /\ (pc[c] = "AwaitingHeader" /\ pc'[c] = "HaveHeader")
             => /\ bytes_read'[c] = header_size
                /\ request'[c].query = ""
                /\ request'[c].body = EmptyBody]_vars

\* The second request dispatched on the connection, a notification whose
\* length field says 16 bytes more than its query and body hold.
C13_Witness ==
  \E c \in Fds :
    /\ pc[c] = "LoopTop" /\ nreq[c] = 2 /\ nerrors[c] = 1
    /\ request[c].header.notify # 0
    /\ request[c].query = "/add" /\ request[c].body = Json(AddArgs)
    /\ request[c].header.length = header_size + 4 + 13 + 16
    /\ Consumed(c) = header_size + 4 + 13
    /\ response[c].header.ec = "none"

(***************************************************************************)
(* C14.  On one connection the worker goes round the cycle                 *)
(* AwaitingHeader -> HaveHeader -> HaveQuery -> HaveBody -> Dispatching    *)
(* -> (Responding | Suppressed) -> AwaitingHeader.  A request is           *)
(* dispatched only after its header, its whole query and its whole body    *)
(* have been read; at most one response is written per request; and the    *)
(* header of the next request is not read before the response to this one  *)
(* has been written or suppressed.                                         *)
(* In the model Dispatching is the step from HaveBody to Dispatched,       *)
(* Responding and Suppressed are the steps from Dispatched to LoopTop,     *)
(* and LoopTop is the test of the while loop before AwaitingHeader.  A      *)
(* worker has a position as long as the process runs.                      *)
(***************************************************************************)
\* The positions that can follow a position of the worker.
Successors(p) ==
  CASE p = "NotAccepted" -> {"LoopTop"}
    [] p = "LoopTop" -> {"AwaitingHeader", "Break"}
    [] p = "AwaitingHeader" -> {"HaveHeader", "Break"}
    [] p = "HaveHeader" -> {"HaveQuery", "Break"}
    [] p = "HaveQuery" -> {"HaveBody", "Break"}
    [] p = "HaveBody" -> {"Dispatched"}
    [] p = "Dispatched" -> {"LoopTop"}
    [] p = "Break" -> {"Closed"}
    [] p = "Closed" -> {}

C14_RequestCycleInOrder ==
  /\ [](\A c \in Fds :
          LET h == request[c].header
          IN /\ Len(wire[c]) <= 1
             /\ nsent[c] <= nreq[c]
             /\ Dispatched(c)
                => /\ bytes_read[c] > 0
                   /\ h.spec = REPE_SPEC /\ h.version = 1
                   /\ Len(request[c].query) = h.query_length
                   /\ BodySize(request[c].body) = h.body_length
                   /\ request[c].body.enc # "partial"
             /\ (alive /\ pc[c] \in {"AwaitingHeader", "HaveHeader", "HaveQuery",
                                     "HaveBody"})
                => /\ wire[c] = <<>>
                   /\ response[c] = EmptyMessage
                   /\ invoked[c] = "none"
             \* the request before this one was answered or suppressed
             /\ (alive /\ pc[c] \in {"AwaitingHeader", "HaveHeader", "HaveQuery",
                                     "HaveBody", "Dispatched"})
                => nsent[c] = nnonnotify[c]
                     - (IF pc[c] \in {"HaveBody", "Dispatched"} /\ h.notify = 0
                          THEN 1 ELSE 0)
                     - (IF pc[c] = "HaveHeader" /\ h.version # 1 /\ h.notify = 0
                          THEN 1 ELSE 0))
  /\ [][\A c \in Fds :
          /\ pc'[c] # pc[c] => pc'[c] \in Successors(pc[c])
          /\ (pc[c] = "HaveHeader" /\ pc'[c] = "HaveQuery")
             => Len(request'[c].query) = request[c].header.query_length
          /\ pc'[c] = "Dispatched" /\ pc[c] # "Dispatched"
             => /\ pc[c] = "HaveBody"
                /\ response'[c] = Answer(request[c])
          /\ (pc[c] = "Dispatched" /\ pc'[c] = "LoopTop")
             => \/ /\ request[c].header.notify # 0         \* Suppressed
                   /\ wire'[c] = <<>> /\ nsent'[c] = nsent[c]
                \/ /\ request[c].header.notify = 0         \* Responding
                   /\ wire'[c] = <<Frame(response[c])>>
                   /\ nsent'[c] = nsent[c] + 1
          /\ nreq'[c] # nreq[c]
             => /\ pc[c] = "AwaitingHeader"
                /\ nreq'[c] = nreq[c] + 1
          /\ nsent'[c] # nsent[c]
             => pc[c] \in {"Dispatched", "HaveHeader"}]_vars

\* The second request has gone round the cycle: it is answered, after a
\* first request that was answered too.
C14_Witness ==
  \E c \in Fds :
    /\ pc[c] = "LoopTop" /\ nreq[c] = 2 /\ nsent[c] = 2 /\ nnonnotify[c] = 2
    /\ request[c].query = "/multiply" /\ request[c].body = Beve(MultiplyArgs)
    /\ wire[c] = <<Frame(response[c])>>
    /\ response[c].body = Beve(Result(Dbl(6)))

(***************************************************************************)
(* FairSpec: one client and a worker thread that is scheduled.  The steps  *)
(* the worker takes on its own (the loop test, the dispatch, the send or   *)
(* the suppression, the close) happen when they can; a recv returns only   *)
(* when the peer sends or closes, which nothing forces.                    *)
(***************************************************************************)
Scheduled(c) ==
  /\ WF_vars(NewIteration(c))
  /\ WF_vars(VersionMismatch(c))
  /\ WF_vars(Dispatch(c))
  /\ WF_vars(Suppress(c))
  /\ WF_vars(Respond(c))
  /\ WF_vars(CloseSocket(c))

\* Requests of every outcome: a sum, a division by zero, a body that
\* does not decode, a method that is not registered.
LiveQueries == {"/add", "/divide", "/Add"}
LiveBodies == {Json(AddArgs), Json(DivideByZeroArgs), Garbage(5)}
LiveHeaders == HeadersFor(LiveQueries, LiveBodies)

LiveNext ==
  \E c \in Solo : Accept(c) \/ Worker(c, LiveHeaders, LiveQueries, LiveBodies)

FairSpec == Init /\ [][LiveNext]_vars /\ \A c \in Solo : Scheduled(c)

(***************************************************************************)
(* C15.  Once a whole frame with the magic, version 1 and notify clear     *)
(* has been received on an open connection, a response to that request is  *)
(* written, and after it the worker is back awaiting a header; no outcome  *)
(* of the request leaves the worker in the dispatch or in the send.        *)
(***************************************************************************)
\* Worker c holds a whole request that is owed a response.
Delivered(c) ==
  /\ alive /\ pc[c] = "HaveBody" /\ closes[c] = 0
  /\ request[c].header.spec = REPE_SPEC
  /\ request[c].header.version = 1
  /\ request[c].header.notify = 0

\* The response to the request of worker c has been written.
Answered(c) ==
  /\ pc[c] = "LoopTop"
  /\ wire[c] = <<Frame(Answer(request[c]))>>
  /\ closes[c] = 0

C15_DeliveredRequestIsAnswered ==
  \A c \in Solo :
    /\ Delivered(c) ~> Answered(c)
    /\ Answered(c) ~> (pc[c] = "AwaitingHeader" /\ closes[c] = 0)
    /\ (alive /\ pc[c] = "Dispatched") ~> (pc[c] = "LoopTop")

\* A request that ended in an error has been answered and the worker
\* awaits the third header.
C15_Witness ==
  \E c \in Solo :
    /\ pc[c] = "AwaitingHeader" /\ nreq[c] = 2 /\ nsent[c] = 2
    /\ nerrors[c] >= 1 /\ closes[c] = 0 /\ alive

(***************************************************************************)
(* C16.  For add, multiply, divide and echo a body that decodes but lacks  *)
(* a key the method reads is no error: the number is taken as 0 (the       *)
(* string as empty) and the method is called with it.  add without keys    *)
(* answers the result 0 with ec = none, and divide without a denominator   *)
(* answers invalid_body "Division by zero", not parse_error.               *)
(***************************************************************************)
\* The keys the method reads from its parameters.
Keys(name) ==
  CASE name = "add" -> {"a", "b"}
    [] name = "multiply" -> {"x", "y"}
    [] name = "divide" -> {"numerator", "denominator"}
    [] name = "echo" -> {"message"}

\* request[c] decodes for the method it names and lacks one of its keys.
LacksKey(c) ==
  LET name == MethodName(request[c].query)
  IN /\ name \in Registered \ {"status"}
     /\ decode_params(ParamType(name), request[c]).ok
     /\ Keys(name) \ DOMAIN request[c].body.val # {}

\* The value read under a key: the one sent, or 0 when none was.
Sent(c, key) ==
  IF key \in DOMAIN request[c].body.val THEN request[c].body.val[key].n ELSE 0

C16_MissingKeyReadsAsZero ==
  \A c \in Fds :
    LET name == MethodName(request[c].query)
        result == response[c].body.val["result"]
    IN (Dispatched(c) /\ LacksKey(c))
       => /\ invoked[c] = name
          /\ response[c].header.ec # "parse_error"
          /\ name = "add"
             => /\ response[c].header.ec = "none"
                /\ result = Dbl(Sent(c, "a") + Sent(c, "b"))
                /\ request[c].body.val = EmptyMap => result = Dbl(0)
          /\ name = "multiply"
             => /\ response[c].header.ec = "none"
                /\ result = Dbl(0)
          /\ (name = "divide" /\ "denominator" \notin DOMAIN request[c].body.val)
             => /\ response[c].header.ec = "invalid_body"
                /\ response[c].body = Text("Division by zero")
          /\ (name = "divide" /\ "denominator" \in DOMAIN request[c].body.val
              /\ Sent(c, "denominator") # 0)
             => /\ response[c].header.ec = "none"
                /\ result = Dbl(0)
          /\ name = "echo"
             => /\ response[c].header.ec = "none"
                /\ result = StrVal("Echo: ")

\* add sent the JSON object without members is answered the result 0.
C16_Witness ==
  \E c \in Fds :
    /\ pc[c] = "LoopTop" /\ nreq[c] = 1
    /\ request[c].query = "/add" /\ request[c].body = Json(EmptyMap)
    /\ request[c].header.body_format = 2
    /\ request[c].header.notify = 0
    /\ LacksKey(c)
    /\ invoked[c] = "add"
    /\ Len(wire[c]) = 1
    /\ wire[c][1].header.ec = "none"
    /\ wire[c][1].body = Json(Result(Dbl(0)))

(***************************************************************************)
(* C17.  In send_response the bytes copied into the buffer (header_size +  *)
(* response.query.size() + response.body.size()) never exceed the size of  *)
(* the buffer, response.header.length, for every response passed to it,    *)
(* the version-mismatch response included.                                 *)
(* This fails for the version-mismatch response: its length is the one     *)
(* the peer sent (C1), and the 16 bytes of "Version mismatch" are copied   *)
(* into a buffer of that size.                                             *)
(***************************************************************************)
\* The response worker c is about to pass to send_response.
Sending(c) ==
  IF pc[c] = "HaveHeader" /\ request[c].header.version # 1
    THEN {version_mismatch(request[c], response[c])}
  ELSE IF pc[c] = "Dispatched" /\ request[c].header.notify = 0
    THEN {response[c]}
  ELSE {}

C17_CopyFitsTheBuffer ==
  \A c \in Fds : \A r \in Sending(c) : Copied(r) <= r.header.length

(***************************************************************************)
(* C18.  The magic is checked before the version.  A header whose magic    *)
(* is not 0x1507 gets no response and the connection is closed, also when  *)
(* its version is not 1; the version-mismatch response is sent only for a  *)
(* header whose magic is 0x1507.                                           *)
(***************************************************************************)
\* The header worker c received whole has a wrong magic.
BadMagic(c) ==
  bytes_read[c] = header_size /\ request[c].header.spec # REPE_SPEC

C18_MagicBeforeVersion ==
  /\ [](\A c \in Fds :
          /\ (nreq[c] > 0 /\ BadMagic(c))
             => /\ pc[c] \in {"Break", "Closed"}
                /\ wire[c] = <<>>
                /\ response[c] = EmptyMessage
                /\ alive
          /\ \A i \in 1..Len(wire[c]) :
               wire[c][i].header.ec = "version_mismatch"
               => /\ request[c].header.spec = REPE_SPEC
                  /\ wire[c][i].header.spec = REPE_SPEC
                  /\ request[c].header.version # 1)
  /\ [][\A c \in Fds :
          /\ (pc[c] = "AwaitingHeader" /\ bytes_read'[c] = header_size
              /\ request'[c].header.spec # REPE_SPEC)
             => /\ pc'[c] = "Break"
                /\ nsent'[c] = nsent[c] /\ wire'[c] = <<>>
          /\ (pc[c] = "Break" /\ BadMagic(c))
             => /\ pc'[c] = "Closed" /\ closes'[c] = closes[c] + 1
                /\ nsent'[c] = nsent[c] /\ wire'[c] = <<>>]_vars

\* A header with the magic 0 and the version 2: the socket is closed and
\* nothing was written.
C18_Witness ==
  \E c \in Fds :
    /\ pc[c] = "Closed" /\ closes[c] = 1
    /\ BadMagic(c)
    /\ request[c].header.version = 2
    /\ nreq[c] = 1 /\ nsent[c] = 0 /\ wire[c] = <<>>

(***************************************************************************)
(* C19.  The notify flag suppresses every outcome of a dispatched          *)
(* request, errors as well as results: a notification that ends in         *)
(* method_not_found, parse_error or invalid_body puts no byte on the wire  *)
(* and leaves the connection open.  The only response ever written for a   *)
(* request with notify set is the version-mismatch response.               *)
(***************************************************************************)
C19_NotifySuppressesErrors ==
  /\ [](\A c \in Fds :
          /\ (Dispatched(c) /\ request[c].header.notify # 0)
             => /\ wire[c] = <<>>
                /\ closes[c] = 0
                /\ alive
          /\ (wire[c] # <<>> /\ request[c].header.notify # 0)
             => /\ OtherVersion(c)
                /\ pc[c] # "LoopTop"
                /\ \A i \in 1..Len(wire[c]) :
                     wire[c][i].header.ec = "version_mismatch")
  /\ [][\A c \in Fds :
          LET failed == response[c].header.ec \in Recoverable
              notified == request[c].header.notify # 0
          IN /\ (pc[c] = "Dispatched" /\ notified /\ failed)
                => /\ pc'[c] = "LoopTop"
                   /\ nsent'[c] = nsent[c] /\ wire'[c] = <<>>
                   /\ closes'[c] = 0 /\ alive'
             /\ (pc[c] = "LoopTop" /\ nreq[c] > 0 /\ notified /\ failed)
                => /\ pc'[c] = "AwaitingHeader"
                   /\ nsent'[c] = nsent[c]
                   /\ closes'[c] = 0 /\ alive']_vars

\* Two notifications, both in error, the second a division by zero:
\* nothing was written and the connection is open.
C19_Witness ==
  \E c \in Fds :
    /\ pc[c] = "LoopTop" /\ nreq[c] = 2 /\ nerrors[c] = 2
    /\ request[c].header.notify # 0
    /\ response[c].header.ec = "invalid_body"
    /\ nsent[c] = 0 /\ wire[c] = <<>>
    /\ closes[c] = 0 /\ alive

(***************************************************************************)
(* C20.  Every iteration starts from a fresh request and a fresh response  *)
(* message, so nothing is carried from one request of a connection to the  *)
(* next: the response to a request depends on that request alone.  After   *)
(* an error response, written or suppressed, the next result has           *)
(* ec = none, notify clear and a body holding its own result only; a       *)
(* request with query_length = 0 or body_length = 0 is dispatched with an  *)
(* empty query or body, not with those of the request before.              *)
(***************************************************************************)
C20_NothingCarriesOver ==
  /\ [](\A c \in Fds :
          LET h == request[c].header
          IN /\ (alive /\ pc[c] = "AwaitingHeader")
                => request[c] = EmptyMessage /\ response[c] = EmptyMessage
             /\ (pc[c] = "HaveBody" \/ Dispatched(c))
                => /\ h.query_length = 0 => request[c].query = ""
                   /\ h.body_length = 0 => request[c].body = EmptyBody
             /\ Dispatched(c)
                => /\ response[c] = process_request(request[c], EmptyMessage).response
                   /\ response[c].header.notify = 0
                   /\ invoked[c] # "none"
                      => response[c].header.ec \in {"none", "invalid_body"}
                   /\ (invoked[c] \in {"add", "multiply", "divide", "echo"}
                       /\ response[c].header.ec = "none")
                      => DOMAIN response[c].body.val = {"result"}
                   /\ invoked[c] = "status"
                      => /\ response[c].header.ec = "none"
                         /\ response[c].body.val = status)
  /\ [][\A c \in Fds :
          (pc[c] = "LoopTop" /\ pc'[c] = "AwaitingHeader")
          => /\ request'[c] = EmptyMessage
             /\ response'[c] = EmptyMessage
             /\ bytes_read'[c] = 0]_vars

\* After a request answered with an error, a status request without a
\* body is dispatched with an empty body and answered its own result.
C20_Witness ==
  \E c \in Fds :
    /\ pc[c] = "LoopTop" /\ nreq[c] = 2 /\ nerrors[c] = 1 /\ nsent[c] = 2
    /\ request[c].query = "/status"
    /\ request[c].header.body_length = 0 /\ request[c].body = EmptyBody
    /\ request[c].header.body_format = 2
    /\ Len(wire[c]) = 1
    /\ wire[c][1].header.ec = "none"
    /\ wire[c][1].header.notify = 0
    /\ wire[c][1].body = Json(status)

====
